---- MODULE Spec2Model ----
(***************************************************************************)
(* Model of the pipeline-verb mechanism of notebooks/pydatapipelines.ipynb *)
(* (PipeVerb, pipeverb, make_pipesource, singledispatch_pipeverb and the   *)
(* verbs the notebook defines with them) and of the two dict helpers of    *)
(* _posts/2015-09-18-working_with_dicts.md (get_from_dict, find_in_dict).  *)
(*                                                                         *)
(* A Python value is [type, data]: its class and a sequence of integers.   *)
(* The outcome of a call is [ok, type, data, about, calls]: a returned     *)
(* value (ok) or a raised exception (type = the exception class, about =   *)
(* the class its message names), with the transformations the call         *)
(* invoked, in order.                                                      *)
(***************************************************************************)
EXTENDS Integers, Sequences, FiniteSets, TLC

\* ------------------------------------------------------------------ bounds
MaxStages == 2      \* stages of one pipeline expression
MaxDepth == 3       \* nested operator calls before RecursionError
MaxItems == 2       \* entries of a dict or list given to the dict helpers

Absent == -1        \* a parameter with no value (no default / not passed)

\* ------------------------------------------------------------------ classes
\* Method resolution order of every class, `object` left implicit at the end.
\* Base, Super and Inherit are user classes deriving from list:
\*   class Base(list):     def __rshift__(self, other): return <value>
\*   class Super(Base):    def __rshift__(self, other): return super().__rshift__(other)
\*   class Inherit(Base):  pass
Mro ==
  [ list             |-> <<"list">>,
    int              |-> <<"int">>,
    DataFrame        |-> <<"DataFrame">>,
    GroupBy          |-> <<"GroupBy">>,
    DataFrameGroupBy |-> <<"DataFrameGroupBy", "GroupBy">>,
    Series           |-> <<"Series">>,
    Base             |-> <<"Base", "list">>,
    Super            |-> <<"Super", "Base", "list">>,
    Inherit          |-> <<"Inherit", "Base", "list">> ]

Classes == DOMAIN Mro

\* Built-in / extension types: their attributes cannot be set.
Builtin == {"list", "int"}

\* A function object usable as an operator: which def it is and its marker.
NoFunc == [kind |-> "none", cls |-> "", pipeoperator |-> FALSE]
OrigFunc(c) == [kind |-> "orig", cls |-> c, pipeoperator |-> FALSE]
PatchedFunc(c) == [kind |-> "patched", cls |-> c, pipeoperator |-> TRUE]

\* The __rshift__ each class body defines before any patching.
InitRshift ==
  [c \in Classes |-> IF c \in {"int", "Base", "Super"} THEN OrigFunc(c) ELSE NoFunc]

\* ------------------------------------------------------------------ values
Value(t, d) == [type |-> t, data |-> d]

Returned(v, cs) ==
  [ok |-> TRUE, type |-> v.type, data |-> v.data, about |-> "", calls |-> cs]
Raised(exc, t, cs) ==
  [ok |-> FALSE, type |-> exc, data |-> <<>>, about |-> t, calls |-> cs]
\* The NotImplemented singleton returned by a binary operator method.
NotImplementedValue == Returned(Value("NotImplementedType", <<>>), <<>>)
IsNotImplemented(o) == o.ok /\ o.type = "NotImplementedType"
ValueOf(o) == Value(o.type, o.data)
NoOutcome == [ok |-> FALSE, type |-> "", data |-> <<>>, about |-> "", calls |-> <<>>]
NoValue == Value("", <<>>)

\* ------------------------------------------------------------------ arguments
\* Keyword arguments: one field per parameter name of the notebook's verbs.
NoKw == [x |-> Absent, y |-> Absent, columns |-> Absent]
ParamNames == {"x", "y", "columns"}

\* Parameters after `input` of each implementation: <<name, default>>.
Params(impl) ==
  CASE impl \in {"append_col_generic", "append_col_df", "append_col_list"} -> << <<"x", 1>> >>
    [] impl \in {"groupby_generic", "groupby_DataFrame"} -> << <<"columns", Absent>> >>
    [] impl \in {"my_verb_generic", "my_verb_df"} -> << <<"x", 1>>, <<"y", 2>> >>
    [] OTHER -> << >>

\* Python's argument binding of impl(input, *a, **k): the bound parameters, or
\* bad (TypeError: too many positionals, unknown or doubled keyword, missing).
Bind(impl, a, k) ==
  LET ps == Params(impl)
      names == {ps[i][1] : i \in 1..Len(ps)}
      pos(n) == CHOOSE i \in 1..Len(ps) : ps[i][1] = n
      bound == [n \in ParamNames |->
                  IF n \notin names THEN Absent
                  ELSE IF pos(n) <= Len(a) THEN a[pos(n)]
                  ELSE IF k[n] # Absent THEN k[n]
                  ELSE ps[pos(n)][2]]
      bad == \/ Len(a) > Len(ps)
             \/ \E n \in ParamNames : k[n] # Absent /\ n \notin names
             \/ \E n \in names : k[n] # Absent /\ pos(n) <= Len(a)
             \/ \E n \in names : bound[n] = Absent
  IN [bad |-> bad, x |-> bound["x"], y |-> bound["y"], columns |-> bound["columns"]]

\* ------------------------------------------------------------------ functions
\* The singledispatch functions of the notebook (cells 3, 7 and 11).
Funcs == {"append_col", "groupby", "summarize_mean", "my_verb_"}

\* The function each @singledispatch decorates: the implementation registered
\* for `object`, run when no class of the argument's MRO is registered.
Generic ==
  [ append_col     |-> "append_col_generic",
    groupby        |-> "groupby_generic",
    summarize_mean |-> "summarize_mean_generic",
    my_verb_       |-> "my_verb_generic" ]

\* Body of each implementation, on bound parameters b.
Body(impl, input, b) ==
  CASE impl = "append_col_generic" ->
         Raised("NotImplementedError", input.type, <<>>)
    [] impl = "append_col_df" ->
         \* copy = input.copy(); copy["X"] = x; return copy
         Returned(Value(input.type, <<b.x>>), <<>>)
    [] impl = "append_col_list" ->
         \* return input + [x]     (list.__add__ returns a plain list)
         Returned(Value("list", input.data \o <<b.x>>), <<>>)
    [] impl = "groupby_generic" ->
         Raised("NotImplementedError", input.type, <<>>)
    [] impl = "groupby_DataFrame" ->
         \* return input.groupby(columns)
         Returned(Value("DataFrameGroupBy", input.data \o <<b.columns>>), <<>>)
    [] impl = "summarize_mean_generic" ->
         Raised("NotImplementedError", input.type, <<>>)
    [] impl = "summarize_mean_DataFrame" ->
         \* return input.mean()    (a Series of column means)
         Returned(Value("Series", input.data), <<>>)
    [] impl = "summarize_mean_GroupBy" ->
         \* return input.mean()    (a DataFrame of group means)
         Returned(Value("DataFrame", input.data), <<>>)
    [] impl = "my_verb_generic" ->
         \* raise NotImplemented(...): NotImplemented is not callable
         Raised("TypeError", "", <<>>)
    [] impl = "my_verb_df" ->
         \* return input + [x, y]
         Returned(Value("list", input.data \o <<b.x, b.y>>), <<>>)
    [] OTHER -> Raised("TypeError", "", <<>>)

\* impl(input, *a, **k): bind the arguments, then run the body.
CallImpl(impl, input, a, k) ==
  LET b == Bind(impl, a, k)
  IN IF b.bad THEN Raised("TypeError", "", <<>>) ELSE Body(impl, input, b)

\* A dispatch that looks at the exact class only.
Dispatch_exact(reg, f, cls) ==
  IF reg[f][cls] # "" THEN reg[f][cls] ELSE Generic[f]

\* functools.singledispatch: the implementation registered for the first class
\* of cls's MRO that has one, else the generic function.
Dispatch(reg, f, cls) ==
  LET m == Mro[cls]
      hits == {i \in 1..Len(m) : reg[f][m[i]] # ""}
  IN IF hits = {} THEN Generic[f]
     ELSE reg[f][m[CHOOSE i \in hits : \A j \in hits : i <= j]]

\* The implementation a callable selects for an argument of class cls: a
\* singledispatch function dispatches, a plain function is itself.
Selected(reg, f, cls) == IF f \in Funcs THEN Dispatch(reg, f, cls) ELSE f

\* f(input, *a, **k) for a singledispatch or plain function f. The outcome
\* logs the invocation as <<function, implementation run>>.
CallFunc(reg, f, input, a, k) ==
  LET impl == Selected(reg, f, input.type)
      o == CallImpl(impl, input, a, k)
  IN [o EXCEPT !.calls = << <<f, impl>> >> \o o.calls]

\* ------------------------------------------------------------------ PipeVerb
\* PipeVerb.__init__: the function and the arguments, nothing run.
PipeVerb(func, a, k) ==
  [kind |-> "PipeVerb", pipe_func |-> func, args |-> a, kwargs |-> k, n |-> 0]

\* A right-hand operand that is not a PipeVerb: the int n.
IntOperand(n) ==
  [kind |-> "int", pipe_func |-> "", args |-> <<>>, kwargs |-> NoKw, n |-> n]
NoOperand == [kind |-> "", pipe_func |-> "", args |-> <<>>, kwargs |-> NoKw, n |-> 0]

\* PipeVerb.__rrshift__ that swallows a failure and passes its input on.
PipeVerb_rrshift_swallow(reg, self, input) ==
  LET o == CallFunc(reg, self.pipe_func, input, self.args, self.kwargs)
  IN IF o.ok THEN o ELSE Returned(input, o.calls)

\* PipeVerb.__rrshift__ that forgets the named arguments.
PipeVerb_rrshift_nokwargs(reg, self, input) ==
  CallFunc(reg, self.pipe_func, input, self.args, NoKw)

\* PipeVerb.__rrshift__: self.pipe_func(input, *self.args, **self.kwargs)
PipeVerb_rrshift(reg, self, input) ==
  CallFunc(reg, self.pipe_func, input, self.args, self.kwargs)

\* A pipeverb that wraps the undecorated generic function instead of the
\* singledispatch function.
pipeverb_unwrapped(func) ==
  [pipe_func |-> IF func \in Funcs THEN Generic[func] ELSE func,
   register |-> IF func \in Funcs THEN func ELSE ""]

\* pipeverb(func): the decorated callable. Calling it builds a PipeVerb over
\* func; `register` is func.register when func has one (a singledispatch
\* function), named here by the function whose dispatch table it writes.
pipeverb(func) ==
  [pipe_func |-> func, register |-> IF func \in Funcs THEN func ELSE ""]

\* A decorated() that runs the transformation at once, on no input.
decorated_eager(verb, a, k) ==
  [value |-> PipeVerb(verb.pipe_func, a, k),
   calls |-> << <<verb.pipe_func, verb.pipe_func>> >>]

\* A decorated() that drops the positional arguments.
decorated_nopositional(verb, a, k) ==
  [value |-> PipeVerb(verb.pipe_func, <<>>, k), calls |-> <<>>]

\* decorated(*args, **kwargs) of a verb made by pipeverb: the PipeVerb it
\* returns and the transformations it invoked (none).
decorated(verb, a, k) ==
  [value |-> PipeVerb(verb.pipe_func, a, k), calls |-> <<>>]

\* singledispatch_pipeverb(func) = pipeverb(singledispatch(func)); f names the
\* singledispatch function made from func.
singledispatch_pipeverb(f) == pipeverb(f)

\* The verbs the notebook defines.
VerbOf ==
  [ append_col     |-> singledispatch_pipeverb("append_col"),
    groupby        |-> singledispatch_pipeverb("groupby"),
    summarize_mean |-> singledispatch_pipeverb("summarize_mean"),
    my_verb        |-> pipeverb("my_verb_") ]

Verbs == DOMAIN VerbOf

\* ------------------------------------------------------------------ operators
\* Attribute lookup on a class: the entry of the first class of the MRO whose
\* own dictionary d has one, from position `from` of the MRO on.
LookupFrom(d, cls, from) ==
  LET m == Mro[cls]
      hits == {i \in from..Len(m) : d[m[i]] # NoFunc}
  IN IF hits = {} THEN NoFunc
     ELSE d[m[CHOOSE i \in hits : \A j \in hits : i <= j]]

Lookup(d, cls) == LookupFrom(d, cls, 1)

\* Position of class c in the MRO of cls.
MroIndex(cls, c) == CHOOSE i \in 1..Len(Mro[cls]) : Mro[cls][i] = c

\* x >> n on ints.
RECURSIVE Pow2(_)
Pow2(n) == IF n = 0 THEN 1 ELSE 2 * Pow2(n - 1)

\* Calling the function object fn as fn(self, other), at nesting depth `depth`,
\* with rs and os the classes' __rshift__ and __orig_rshift__ attributes.
\*   orig int:    int.__rshift__, NotImplemented unless other is an int
\*   orig Base:   returns list(self) + [n] for an int n, list(self) otherwise
\*   orig Super:  return super().__rshift__(other)
\*   patched:     the __rshift__ that make_pipesource installs
RECURSIVE Invoke(_, _, _, _, _, _, _)
Invoke(reg, rs, os, fn, self, other, depth) ==
  IF depth > MaxDepth THEN Raised("RecursionError", "", <<>>)
  ELSE
    CASE fn.kind = "patched" ->
           IF other.kind = "PipeVerb"
           THEN PipeVerb_rrshift(reg, other, self)
           ELSE LET g == Lookup(os, self.type)
                IN IF g = NoFunc THEN Raised("AttributeError", "", <<>>)
                   ELSE Invoke(reg, rs, os, g, self, other, depth + 1)
      [] fn.kind = "orig" /\ fn.cls = "int" ->
           IF other.kind = "int"
           THEN Returned(Value("int", <<self.data[1] \div Pow2(other.n)>>), <<>>)
           ELSE NotImplementedValue
      [] fn.kind = "orig" /\ fn.cls = "Base" ->
           IF other.kind = "int"
           THEN Returned(Value("list", self.data \o <<other.n>>), <<>>)
           ELSE Returned(Value("list", self.data), <<>>)
      [] fn.kind = "orig" /\ fn.cls = "Super" ->
           LET g == LookupFrom(rs, self.type, MroIndex(self.type, "Super") + 1)
           IN IF g = NoFunc THEN Raised("AttributeError", "", <<>>)
              ELSE Invoke(reg, rs, os, g, self, other, depth + 1)
      [] OTHER -> Raised("TypeError", "", <<>>)

\* Python's evaluation of lhs >> rhs: type(lhs).__rshift__ first; when it is
\* missing or returns NotImplemented, the reflected type(rhs).__rrshift__
\* (PipeVerb.__rrshift__ for a PipeVerb; int.__rrshift__ declines any lhs that
\* int.__rshift__ declined); TypeError when both decline.
BinaryRshift(reg, rs, os, lhs, rhs) ==
  LET f == Lookup(rs, lhs.type)
      r == IF f = NoFunc THEN NotImplementedValue
           ELSE Invoke(reg, rs, os, f, lhs, rhs, 1)
  IN IF ~IsNotImplemented(r) THEN r
     ELSE IF rhs.kind = "PipeVerb" THEN PipeVerb_rrshift(reg, rhs, lhs)
     ELSE Raised("TypeError", "", <<>>)

\* A make_pipesource that does not look at the pipeoperator marker.
make_pipesource_nomarker(rs, os, cls) ==
  LET f == Lookup(rs, cls)
  IN IF f # NoFunc /\ cls \notin Builtin
     THEN << [rs EXCEPT ![cls] = PatchedFunc(cls)], [os EXCEPT ![cls] = f] >>
     ELSE << rs, os >>

\* make_pipesource(cls): the classes' <<__rshift__, __orig_rshift__>> after the
\* call. Nothing changes unless cls has a __rshift__ without the pipeoperator
\* marker; setting an attribute of a built-in type raises before any change.
make_pipesource(rs, os, cls) ==
  LET f == Lookup(rs, cls)
  IN IF f # NoFunc /\ ~f.pipeoperator /\ cls \notin Builtin
     THEN << [rs EXCEPT ![cls] = PatchedFunc(cls)], [os EXCEPT ![cls] = f] >>
     ELSE << rs, os >>

\* ------------------------------------------------------------------ inputs
\* Values a statement starts from: [1, 2], the int 1, a DataFrame, a grouped
\* DataFrame (df.groupby(3)) and an instance of each user class.
InitValues ==
  { Value("list", <<1, 2>>), Value("int", <<1>>), Value("DataFrame", <<>>),
    Value("DataFrameGroupBy", <<3>>),
    Value("Base", <<1>>), Value("Super", <<1>>), Value("Inherit", <<1>>) }

\* Arguments a verb is called with: (), (x=5), (3), (x=2, y=3), (2, y=3).
ArgChoices ==
  { << <<>>, NoKw >>,
    << <<>>, [NoKw EXCEPT !.x = 5] >>,
    << <<3>>, NoKw >>,
    << <<>>, [NoKw EXCEPT !.x = 2, !.y = 3] >>,
    << <<2>>, [NoKw EXCEPT !.y = 3] >> }

\* Right-hand operands that are not PipeVerbs.
Others == {IntOperand(1), IntOperand(2)}

\* Registrations made in the cell that defines the verb (cells 3, 7, 11).
DefinitionRegistry ==
  [f \in Funcs |-> [c \in Classes |->
     CASE f = "append_col" /\ c = "DataFrame" -> "append_col_df"
       [] f = "groupby" /\ c = "DataFrame" -> "groupby_DataFrame"
       [] f = "summarize_mean" /\ c = "DataFrame" -> "summarize_mean_DataFrame"
       [] f = "summarize_mean" /\ c = "GroupBy" -> "summarize_mean_GroupBy"
       [] f = "my_verb_" /\ c = "list" -> "my_verb_df"
       [] OTHER -> ""]]

\* Registrations made later: cell 5's list implementation of append_col, and
\* the list implementations registered for the user class Base.
RegChoices ==
  { [func |-> "append_col", cls |-> "list", impl |-> "append_col_list"],
    [func |-> "append_col", cls |-> "Base", impl |-> "append_col_list"],
    [func |-> "my_verb_", cls |-> "Base", impl |-> "my_verb_df"] }

\* The name the notebook gives the verb built over each singledispatch function.
VerbName ==
  [ append_col     |-> "append_col",
    groupby        |-> "groupby",
    summarize_mean |-> "summarize_mean",
    my_verb_       |-> "my_verb" ]

\* ------------------------------------------------------------------ state
VARIABLES
  cls_rshift,   \* class -> the __rshift__ in the class's own dictionary
  cls_orig,     \* class -> the __orig_rshift__ in the class's own dictionary
  registry,     \* singledispatch function -> class -> registered implementation
  last_stmt,    \* the last definition statement run (register / make_pipesource)
  status,       \* "idle", "running", "returned", "raised": the current statement
  expr,         \* its form: "pipe" (v >> verb()...), "other" (v >> n), "direct"
  init,         \* the value the statement started from
  cur,          \* the value the pipeline has produced so far
  called,       \* the verb calls verb(*a, **k) evaluated so far, as written
  pv,           \* the PipeVerb built for the next stage, not yet applied
  stages,       \* the PipeVerbs of the stages evaluated so far
  inputs,       \* the left operand of each stage evaluated so far
  other,        \* the non-PipeVerb operand of v >> n
  direct,       \* the function and arguments of a direct call f(v, *a, **k)
  result,       \* what the statement returned or raised
  calls,        \* per operation of the statement, the transformations it invoked
  d_pc, d_data, d_text, d_path, d_found, d_out   \* the dict helpers' run

pipe_vars ==
  << cls_rshift, cls_orig, registry, last_stmt, status, expr, init, cur, called,
     pv, stages, inputs, other, direct, result, calls >>
dict_vars == << d_pc, d_data, d_text, d_path, d_found, d_out >>
vars == << pipe_vars, dict_vars >>

NoStmt ==
  [op |-> "", via |-> "", func |-> "", cls |-> "", impl |-> "", marked |-> FALSE]
NoDirect == [func |-> "", args |-> <<>>, kwargs |-> NoKw]

PipeInit ==
  /\ cls_rshift = InitRshift
  /\ cls_orig = [c \in Classes |-> NoFunc]
  /\ registry = DefinitionRegistry
  /\ last_stmt = NoStmt
  /\ status = "idle"
  /\ expr = ""
  /\ init = NoValue
  /\ cur = NoValue
  /\ called = <<>>
  /\ pv = NoOperand
  /\ stages = <<>>
  /\ inputs = <<>>
  /\ other = NoOperand
  /\ direct = NoDirect
  /\ result = NoOutcome
  /\ calls = <<>>

expr_vars ==
  << status, expr, init, cur, called, pv, stages, inputs, other, direct, result,
     calls >>

\* verb.register(cls)(impl) or func.register(cls)(impl): writes the dispatch
\* table the register attribute belongs to.
Register(via, r) ==
  /\ status = "idle"
  /\ LET table == IF via = "verb" THEN VerbOf[VerbName[r.func]].register ELSE r.func
     IN /\ registry' = IF table = "" THEN registry
                        ELSE [registry EXCEPT ![table][r.cls] = r.impl]
        /\ last_stmt' = [NoStmt EXCEPT !.op = "register", !.via = via,
                           !.func = r.func, !.cls = r.cls, !.impl = r.impl]
  /\ UNCHANGED << cls_rshift, cls_orig, expr_vars, dict_vars >>

\* make_pipesource(c)
MakePipesource(c) ==
  /\ status = "idle"
  /\ LET after == make_pipesource(cls_rshift, cls_orig, c)
     IN /\ cls_rshift' = after[1]
        /\ cls_orig' = after[2]
  /\ last_stmt' = [NoStmt EXCEPT !.op = "make_pipesource", !.cls = c,
                     !.marked = Lookup(cls_rshift, c).pipeoperator]
  /\ UNCHANGED << registry, expr_vars, dict_vars >>

\* A statement starts evaluating an expression whose leftmost operand is v.
Start(v) ==
  /\ status = "idle"
  /\ status' = "running"
  /\ init' = v
  /\ cur' = v
  /\ last_stmt' = NoStmt
  /\ UNCHANGED << cls_rshift, cls_orig, registry, expr, called, pv, stages,
                  inputs, other, direct, result, calls, dict_vars >>

\* The next operand verb(*a, **k) is evaluated: decorated() builds a PipeVerb.
CallVerb(verb, a, k) ==
  /\ status = "running"
  /\ pv = NoOperand
  /\ Len(stages) < MaxStages
  /\ LET d == decorated(VerbOf[verb], a, k)
     IN /\ pv' = d.value
        /\ calls' = IF d.calls = <<>> THEN calls ELSE Append(calls, d.calls)
  /\ called' = Append(called, [verb |-> verb, args |-> a, kwargs |-> k])
  /\ expr' = "pipe"
  /\ UNCHANGED << cls_rshift, cls_orig, registry, last_stmt, status, init, cur,
                  stages, inputs, other, direct, result, dict_vars >>

\* cur >> pv is evaluated; an exception ends the statement.
Rshift ==
  /\ status = "running"
  /\ pv # NoOperand
  /\ LET o == BinaryRshift(registry, cls_rshift, cls_orig, cur, pv)
     IN /\ calls' = Append(calls, o.calls)
        /\ stages' = Append(stages, pv)
        /\ inputs' = Append(inputs, cur)
        /\ pv' = NoOperand
        /\ IF o.ok
           THEN /\ cur' = ValueOf(o)
                /\ UNCHANGED << status, result >>
           ELSE /\ status' = "raised"
                /\ result' = [o EXCEPT !.calls = <<>>]
                /\ UNCHANGED cur
  /\ UNCHANGED << cls_rshift, cls_orig, registry, last_stmt, expr, init, called,
                  other, direct, dict_vars >>

\* The pipeline expression is complete: its value is the last stage's result.
Finish ==
  /\ status = "running"
  /\ pv = NoOperand
  /\ stages # <<>>
  /\ status' = "returned"
  /\ result' = Returned(cur, <<>>)
  /\ UNCHANGED << cls_rshift, cls_orig, registry, last_stmt, expr, init, cur,
                  called, pv, stages, inputs, other, direct, calls, dict_vars >>

\* The statement v >> n, n not a PipeVerb.
RshiftOther(n) ==
  /\ status = "running"
  /\ pv = NoOperand
  /\ stages = <<>>
  /\ LET o == BinaryRshift(registry, cls_rshift, cls_orig, cur, n)
     IN /\ calls' = Append(calls, o.calls)
        /\ status' = IF o.ok THEN "returned" ELSE "raised"
        /\ result' = [o EXCEPT !.calls = <<>>]
  /\ other' = n
  /\ expr' = "other"
  /\ UNCHANGED << cls_rshift, cls_orig, registry, last_stmt, init, cur, called,
                  pv, stages, inputs, direct, dict_vars >>

\* The statement f(v, *a, **k): the singledispatch function called directly.
DirectCall(f, a, k) ==
  /\ status = "running"
  /\ pv = NoOperand
  /\ stages = <<>>
  /\ LET o == CallFunc(registry, f, cur, a, k)
     IN /\ calls' = Append(calls, o.calls)
        /\ status' = IF o.ok THEN "returned" ELSE "raised"
        /\ result' = [o EXCEPT !.calls = <<>>]
  /\ direct' = [func |-> f, args |-> a, kwargs |-> k]
  /\ expr' = "direct"
  /\ UNCHANGED << cls_rshift, cls_orig, registry, last_stmt, init, cur, called,
                  pv, stages, inputs, other, dict_vars >>

\* The statement is over; the next one starts afresh.
Reset ==
  /\ status \in {"returned", "raised"}
  /\ status' = "idle"
  /\ expr' = ""
  /\ init' = NoValue
  /\ cur' = NoValue
  /\ called' = <<>>
  /\ pv' = NoOperand
  /\ stages' = <<>>
  /\ inputs' = <<>>
  /\ other' = NoOperand
  /\ direct' = NoDirect
  /\ result' = NoOutcome
  /\ calls' = <<>>
  /\ UNCHANGED << cls_rshift, cls_orig, registry, last_stmt, dict_vars >>

\* ------------------------------------------------------------------ dict helpers
\* A string is a sequence of characters. A node of the nested structure is
\* [kind, s, keys, items]: a string leaf (s), a list (items) or a dict (keys
\* and items in iteration order).
Leaf(str) == [kind |-> "str", s |-> str, keys |-> <<>>, items |-> <<>>]
ListNode(xs) == [kind |-> "list", s |-> <<>>, keys |-> <<>>, items |-> xs]
DictNode(ks, xs) == [kind |-> "dict", s |-> <<>>, keys |-> ks, items |-> xs]
NoNode == [kind |-> "", s |-> <<>>, keys |-> <<>>, items |-> <<>>]
\* Python's None as a value inside data (a JSON null).
NoneNode == [kind |-> "None", s |-> <<>>, keys |-> <<>>, items |-> <<>>]

DigitChars == <<"0", "1", "2", "3", "4", "5", "6", "7", "8", "9">>
IsDigit(c) == \E i \in 1..10 : DigitChars[i] = c
DigitOf(c) == (CHOOSE i \in 1..10 : DigitChars[i] = c) - 1

\* str(i) for i >= 0
RECURSIVE Str(_)
Str(i) ==
  IF i < 10 THEN <<DigitChars[i + 1]>>
  ELSE Str(i \div 10) \o <<DigitChars[(i % 10) + 1]>>

\* int(n) succeeds on a non-empty string of digits (the alphabet here has no
\* sign, blank or underscore).
IsInt(n) == n # <<>> /\ \A i \in 1..Len(n) : IsDigit(n[i])
RECURSIVE IntOf(_)
IntOf(n) ==
  IF n = <<>> THEN 0
  ELSE 10 * IntOf(SubSeq(n, 1, Len(n) - 1)) + DigitOf(n[Len(n)])

\* name.split(".")
RECURSIVE Split(_)
Split(name) ==
  IF \A i \in 1..Len(name) : name[i] # "." THEN <<name>>
  ELSE LET d == CHOOSE i \in 1..Len(name) :
                  name[i] = "." /\ \A j \in 1..(i - 1) : name[j] # "."
       IN <<SubSeq(name, 1, d - 1)>> \o Split(SubSeq(name, d + 1, Len(name)))

\* ".".join(stack)
RECURSIVE Join(_)
Join(stack) ==
  IF stack = <<>> THEN <<>>
  ELSE IF Len(stack) = 1 THEN stack[1]
  ELSE stack[1] \o <<".">> \o Join(Tail(stack))

\* text in data, for strings
Contains(data, text) ==
  \E i \in 1..(Len(data) + 1) :
     i + Len(text) - 1 <= Len(data) /\ SubSeq(data, i, i + Len(text) - 1) = text

DictOutcome(ok, exc, node) == [ok |-> ok, exc |-> exc, node |-> node]
NoneString == Leaf(<<"N", "o", "n", "e">>)

\* data.get(n, "None"): only a dict has get.
DictGet(data, n) ==
  IF data.kind # "dict" THEN DictOutcome(FALSE, "AttributeError", NoNode)
  ELSE IF \E i \in 1..Len(data.keys) : data.keys[i] = n
       THEN DictOutcome(TRUE, "", data.items[CHOOSE i \in 1..Len(data.keys) : data.keys[i] = n])
       ELSE DictOutcome(TRUE, "", NoneString)

\* One round of get_from_dict's loop:
\*   try: i = int(n); data = data[i]
\*   except: data = data.get(n, "None")
\* A dict has string keys, so data[i] raises KeyError on it.
GetStep(data, n) ==
  IF IsInt(n)
  THEN LET i == IntOf(n)
       IN IF data.kind = "list" /\ i < Len(data.items)
          THEN DictOutcome(TRUE, "", data.items[i + 1])
          ELSE IF data.kind = "str" /\ i < Len(data.s)
          THEN DictOutcome(TRUE, "", Leaf(<<data.s[i + 1]>>))
          ELSE DictGet(data, n)
  ELSE DictGet(data, n)

\* get_from_dict(data, name), over the segments still to follow. After each
\* step, `if data is None: raise Exception("Key not found: %s (%s)" % (n, name))`;
\* the outcome carries the segment n of the message.
RECURSIVE GetLoop(_, _)
GetLoop(data, names) ==
  IF names = <<>> THEN DictOutcome(TRUE, "", data)
  ELSE LET o == GetStep(data, names[1])
       IN IF ~o.ok THEN o
          ELSE IF o.node = NoneNode
          THEN DictOutcome(FALSE, "Key not found", Leaf(names[1]))
          ELSE GetLoop(o.node, Tail(names))

get_from_dict(data, name) == GetLoop(data, Split(name))

\* A _find that does not pop the key of a child without a match.
RECURSIVE find_nopop(_, _, _, _)
find_nopop(data, text, stack, i) ==
  IF data.kind = "str"
  THEN << data.s = text \/ Contains(data.s, text), stack, FALSE >>
  ELSE IF data.kind = "None" THEN << FALSE, stack, TRUE >>
  ELSE IF i > Len(data.items) THEN << FALSE, stack, FALSE >>
  ELSE LET key == IF data.kind = "list" THEN Str(i - 1) ELSE data.keys[i]
           sub == find_nopop(data.items[i], text, Append(stack, key), 1)
       IN IF sub[1] \/ sub[3] THEN sub ELSE find_nopop(data, text, sub[2], i + 1)

\* _find(data, stack) of find_in_dict: <<found, stack, raised>>. Children are
\* visited in order from child i on; the key is pushed, and popped when the
\* child has no match. On a None leaf `text in data` raises TypeError, which
\* ends the search.
RECURSIVE find(_, _, _, _)
find(data, text, stack, i) ==
  IF data.kind = "str"
  THEN << data.s = text \/ Contains(data.s, text), stack, FALSE >>
  ELSE IF data.kind = "None" THEN << FALSE, stack, TRUE >>
  ELSE IF i > Len(data.items) THEN << FALSE, stack, FALSE >>
  ELSE LET key == IF data.kind = "list" THEN Str(i - 1) ELSE data.keys[i]
           sub == find(data.items[i], text, Append(stack, key), 1)
       IN IF sub[1] \/ sub[3] THEN sub ELSE find(data, text, stack, i + 1)

\* find_in_dict(data, text): the joined stack, or "Not found in data".
find_in_dict(data, text) ==
  LET r == find(data, text, <<>>, 1)
  IN IF r[3] THEN DictOutcome(FALSE, "TypeError", NoNode)
     ELSE IF r[1] THEN DictOutcome(TRUE, "", Leaf(Join(r[2])))
     ELSE DictOutcome(FALSE, "Exception", NoNode)

\* Inputs of the dict helpers.
Texts == { <<"b">>, <<"a", "b">> }
LeafStrings == { <<"a", "b">>, <<"a">> }
TopKeys == { <<"a">>, <<"a", ".", "b">> }
InnerKeys == { <<"b">>, <<"0">> }

\* Sequences of length 0..n over S / without repetition.
SeqsUpTo(S, n) == UNION { [1..k -> S] : k \in 0..n }
KeySeqs(S, n) == { ks \in SeqsUpTo(S, n) : \A i, j \in 1..Len(ks) : i # j => ks[i] # ks[j] }

Containers(keys, children) ==
  { ListNode(xs) : xs \in SeqsUpTo(children, MaxItems) }
  \cup UNION { { DictNode(ks, xs) : xs \in [1..Len(ks) -> children] } :
               ks \in KeySeqs(keys, MaxItems) }

Leaves == { Leaf(str) : str \in LeafStrings }
Inner == Containers(InnerKeys, Leaves)
DictInputs == Containers(TopKeys, Leaves \cup {NoneNode} \cup Inner)

\* Dotted names given to get_from_dict directly.
Names == { <<"a">>, <<"b">>, <<"0">>, <<"a", ".", "b">>, <<"a", ".", "0">> }

DictInit ==
  /\ d_pc = "start"
  /\ d_data \in DictInputs
  /\ d_text \in Texts
  /\ d_path = <<>>
  /\ d_found = FALSE
  /\ d_out = DictOutcome(FALSE, "", NoNode)

DictIdle ==
  /\ d_pc = "off"
  /\ d_data = NoNode
  /\ d_text = <<>>
  /\ d_path = <<>>
  /\ d_found = FALSE
  /\ d_out = DictOutcome(FALSE, "", NoNode)

\* path = find_in_dict(data, text)
FindInDict ==
  /\ d_pc = "start"
  /\ LET r == find_in_dict(d_data, d_text)
     IN /\ d_found' = r.ok
        /\ d_path' = r.node.s
        /\ d_pc' = IF r.ok THEN "found" ELSE "raised"
  /\ UNCHANGED << d_data, d_text, d_out, pipe_vars >>

\* get_from_dict(data, path)
GetFromDict ==
  /\ d_pc = "found"
  /\ d_out' = get_from_dict(d_data, d_path)
  /\ d_pc' = "done"
  /\ UNCHANGED << d_data, d_text, d_path, d_found, pipe_vars >>

\* get_from_dict(data, name) for a name of the caller's choice.
GetByName(name) ==
  /\ d_pc = "start"
  /\ d_out' = get_from_dict(d_data, name)
  /\ d_path' = name
  /\ d_pc' = "got"
  /\ UNCHANGED << d_data, d_text, d_found, pipe_vars >>

\* ------------------------------------------------------------------ specifications
Init == PipeInit /\ DictIdle

Next ==
  \/ \E via \in {"verb", "func"}, r \in RegChoices : Register(via, r)
  \/ \E c \in Classes : MakePipesource(c)
  \/ \E v \in InitValues : Start(v)
  \/ \E verb \in Verbs, ak \in ArgChoices : CallVerb(verb, ak[1], ak[2])
  \/ Rshift
  \/ Finish
  \/ \E n \in Others : RshiftOther(n)
  \/ \E f \in Funcs, ak \in ArgChoices : DirectCall(f, ak[1], ak[2])
  \/ Reset

Spec == Init /\ [][Next]_vars

\* The dict helpers on their own: find_in_dict, then get_from_dict on its path.
InitDict == PipeInit /\ DictInit

NextDict ==
  \/ FindInDict
  \/ GetFromDict
  \/ \E name \in Names : GetByName(name)

SpecDict == InitDict /\ [][NextDict]_vars

\* ------------------------------------------------------------------ claims
\* The singledispatch function each verb is built over (cells 3, 7, 11): the
\* function of the direct form verb_(v, *a, **k).
FuncOf ==
  [ append_col     |-> "append_col",
    groupby        |-> "groupby",
    summarize_mean |-> "summarize_mean",
    my_verb        |-> "my_verb_" ]

\* The stage evaluated last in the pipeline statement: the verb call as
\* written, its left operand, what it invoked and what it returned or raised.
StageDone == expr = "pipe" /\ stages # <<>> /\ Len(called) = Len(stages)
LastCalled == called[Len(stages)]
LastFunc == FuncOf[LastCalled.verb]
LastInput == inputs[Len(stages)]
LastCalls == calls[Len(calls)]
LastOutcome == IF status = "raised" THEN result ELSE Returned(cur, <<>>)

\* The class's >> hands a PipeVerb operand to PipeVerb.__rrshift__: the class
\* has no __rshift__, or one that declines the operand (int's), or the one
\* make_pipesource installs.
PipeSource(cls) ==
  LET f == Lookup(cls_rshift, cls)
  IN f = NoFunc \/ f.pipeoperator \/ f = OrigFunc("int")

\* The last stage's verb has a specialization registered for the exact type
\* of its left operand.
ExactlyRegistered == registry[LastFunc][LastInput.type] # ""

DirectSpecialization ==
  CallImpl(registry[LastFunc][LastInput.type], LastInput,
           LastCalled.args, LastCalled.kwargs)

\* C1 as claimed: for every value v whose exact type T has a registered
\* specialization s, v >> verb(*a, **k) returns what s(v, *a, **k) returns and
\* invokes the transformation exactly once.
C1_AsClaimed ==
  (StageDone /\ ExactlyRegistered) =>
     /\ LastOutcome = DirectSpecialization
     /\ LastCalls = << <<LastFunc, registry[LastFunc][LastInput.type]>> >>

\* C1 amended: the same, for a value whose type is a pipe source (no >> of its
\* own that handles a PipeVerb, or enabled by make_pipesource).
C1_PipeEqualsDirect ==
  (StageDone /\ ExactlyRegistered /\ PipeSource(LastInput.type)) =>
     /\ LastOutcome = DirectSpecialization
     /\ LastCalls = << <<LastFunc, registry[LastFunc][LastInput.type]>> >>

\* [1, 2] >> append_col(x=5) gave [1, 2, 5].
C1_Witness ==
  /\ StageDone /\ ExactlyRegistered /\ PipeSource(LastInput.type)
  /\ LastInput = Value("list", <<1, 2>>)
  /\ LastCalled = [verb |-> "append_col", args |-> <<>>, kwargs |-> [NoKw EXCEPT !.x = 5]]
  /\ status = "running"
  /\ cur = Value("list", <<1, 2, 5>>)

\* Positions of the classes of cls's MRO that f has a registration for.
RegisteredInMro(f, cls) == {i \in 1..Len(Mro[cls]) : registry[f][Mro[cls][i]] # ""}

\* The failure of f's generic implementation on a value of class cls.
GenericFailure(f, cls) ==
  IF f = "my_verb_" THEN Raised("TypeError", "", <<>>)
  ELSE Raised("NotImplementedError", cls, <<>>)

\* C2 as claimed, on the case it names: a value whose exact type has no
\* registered specialization but is a subclass of a registered type runs the
\* generic implementation and raises the unimplemented failure naming its type.
C2_NoSuperclassFallback ==
  (/\ StageDone /\ PipeSource(LastInput.type)
   /\ ~ExactlyRegistered
   /\ RegisteredInMro(LastFunc, LastInput.type) # {}) =>
     /\ LastCalls = << <<LastFunc, Generic[LastFunc]>> >>
     /\ status = "raised"
     /\ result = Raised("NotImplementedError", LastInput.type, <<>>)

\* C2 amended: dispatch follows the MRO of the value's type. The specialization
\* of the nearest registered class of the MRO runs (a subclass of a registered
\* type runs the superclass's specialization); only when no class of the MRO
\* is registered does the generic implementation run, and the statement then
\* raises: given arguments the verb accepts, NotImplementedError naming the
\* value's type for append_col, groupby and summarize_mean, and TypeError for
\* my_verb.
C2_DispatchByMro ==
  (StageDone /\ PipeSource(LastInput.type)) =>
     LET f == LastFunc
         m == Mro[LastInput.type]
         hits == RegisteredInMro(f, LastInput.type)
     IN IF hits = {}
        THEN /\ LastCalls = << <<f, Generic[f]>> >>
             /\ status = "raised"
             /\ ~Bind(Generic[f], LastCalled.args, LastCalled.kwargs).bad
                   => result = GenericFailure(f, LastInput.type)
        ELSE \E i \in hits :
               /\ \A j \in hits : i <= j
               /\ LastCalls = << <<f, registry[f][m[i]]>> >>
               /\ LastOutcome = CallImpl(registry[f][m[i]], LastInput,
                                          LastCalled.args, LastCalled.kwargs)

\* df.groupby(3) >> summarize_mean(): a DataFrameGroupBy, for which nothing is
\* registered, ran the implementation registered for GroupBy.
C2_Witness ==
  /\ StageDone /\ PipeSource(LastInput.type)
  /\ LastInput = Value("DataFrameGroupBy", <<3>>)
  /\ ~ExactlyRegistered
  /\ LastCalls = << <<"summarize_mean", "summarize_mean_GroupBy">> >>
  /\ cur = Value("DataFrame", <<3>>)

\* The nested direct call g_(f_(v, a), b) of the verb calls cs, from value v:
\* each function picks its implementation by the class of the value it gets.
RECURSIVE Nested(_, _)
Nested(v, cs) ==
  IF cs = <<>> THEN Returned(v, <<>>)
  ELSE LET f == FuncOf[cs[1].verb]
           o == CallImpl(Selected(registry, f, v.type), v, cs[1].args, cs[1].kwargs)
       IN IF ~o.ok THEN o ELSE Nested(ValueOf(o), Tail(cs))

PipelineOver == expr = "pipe" /\ status \in {"returned", "raised"}

\* Each stage ran once, the implementation chosen by its left operand's class.
StagesInOrder ==
  /\ inputs[1] = init
  /\ \A i \in 1..Len(stages) :
       /\ calls[i] = << <<FuncOf[called[i].verb],
                          Selected(registry, FuncOf[called[i].verb], inputs[i].type)>> >>
       /\ i < Len(stages) => Returned(inputs[i + 1], <<>>) = Nested(init, SubSeq(called, 1, i))

\* C3 as claimed: for every value v, v >> f(a) >> g(b) returns what the nested
\* direct call g_(f_(v, a), b) returns, each stage's specialization chosen by
\* the type of the value the previous stage produced.
C3_AsClaimed ==
  PipelineOver => (result = Nested(init, called) /\ StagesInOrder)

\* C3 amended: the same, when the left operand of every stage is a pipe source.
C3_PipelineEqualsNested ==
  (PipelineOver /\ \A i \in 1..Len(inputs) : PipeSource(inputs[i].type)) =>
     (result = Nested(init, called) /\ StagesInOrder)

\* df >> groupby(3) >> summarize_mean() returned the grouped means.
C3_Witness ==
  /\ PipelineOver
  /\ status = "returned"
  /\ init = Value("DataFrame", <<>>)
  /\ Len(stages) = 2
  /\ called[1].verb = "groupby" /\ called[1].args = <<3>>
  /\ called[2].verb = "summarize_mean"
  /\ inputs[2].type = "DataFrameGroupBy"
  /\ result = Returned(Value("DataFrame", <<3>>), <<>>)

\* C4: calling a verb made by pipeverb runs nothing: the step that evaluates
\* verb(*a, **k) leaves the invocation log, the pipeline's value and its status
\* alone and yields a PipeVerb holding the verb's function and exactly a and k;
\* the function is invoked only by the later step that applies that PipeVerb.
C4_CallIsDeferred ==
  [][ /\ (pv = NoOperand /\ pv' # NoOperand) =>
          /\ calls' = calls /\ cur' = cur /\ status' = status
          /\ pv' = PipeVerb(FuncOf[called'[Len(called')].verb],
                            called'[Len(called')].args, called'[Len(called')].kwargs)
      /\ (expr' = "pipe" /\ calls' # calls) =>
          /\ pv # NoOperand /\ pv' = NoOperand
          /\ stages' = Append(stages, pv)
          /\ \A j \in 1..Len(calls'[Len(calls')]) :
                calls'[Len(calls')][j][1] = pv.pipe_func ]_vars

\* my_verb(x=2, y=3) has been called and its PipeVerb not yet applied: nothing
\* has been invoked.
C4_Witness ==
  /\ status = "running"
  /\ pv = PipeVerb("my_verb_", <<>>, [NoKw EXCEPT !.x = 2, !.y = 3])
  /\ init = Value("list", <<1, 2>>)
  /\ stages = <<>>
  /\ calls = <<>>

\* v >> n as the classes were before any make_pipesource call.
OriginalRshift(v, n) ==
  BinaryRshift(registry, InitRshift, [c \in Classes |-> NoFunc], v, n)

OtherOver == expr = "other" /\ status \in {"returned", "raised"}

\* C5: for a type that had a >> before make_pipesource was called, value >> n
\* with n not a PipeVerb gives, after any make_pipesource calls, what the
\* type's original >> gives for the same operands.
C5_FallbackPreserved ==
  (OtherOver /\ Lookup(InitRshift, init.type) # NoFunc) =>
     result = [OriginalRshift(init, other) EXCEPT !.calls = <<>>]

\* C6: make_pipesource on a class whose >> already carries the pipeoperator
\* marker changes no class's __rshift__ and no class's __orig_rshift__ (the
\* attributes that decide both branches of the operator).
C6_SecondCallIsNoOp ==
  [][ (status = "idle" /\ status' = "idle"
       /\ last_stmt'.op = "make_pipesource" /\ last_stmt'.marked) =>
        (cls_rshift' = cls_rshift /\ cls_orig' = cls_orig) ]_vars

\* make_pipesource(Base) has just run on the already enabled Base: Base still
\* has the operator and the original of the first call.
C6_Witness ==
  /\ last_stmt.op = "make_pipesource" /\ last_stmt.cls = "Base" /\ last_stmt.marked
  /\ cls_rshift["Base"] = PatchedFunc("Base")
  /\ cls_orig["Base"] = OrigFunc("Base")

\* What the last stage's transformation does on the stage's left operand.
LastTransformation ==
  CallFunc(registry, LastFunc, LastInput, LastCalled.args, LastCalled.kwargs)

\* C7: when the transformation of a stage fails, the statement raises that
\* failure unchanged, having invoked the transformation once; and a statement
\* that has raised runs nothing more: no later stage, no retry, no result.
C7_FailureIsFatal ==
  /\ [](( StageDone /\ LastCalls # <<>> /\ ~LastTransformation.ok) =>
          /\ status = "raised"
          /\ result = [LastTransformation EXCEPT !.calls = <<>>]
          /\ LastCalls = LastTransformation.calls
          /\ Len(LastCalls) = 1)
  /\ [][ status = "raised" =>
           \/ status' = "idle"
           \/ UNCHANGED << status, result, calls, stages, called, pv, cur >> ]_vars

\* 1 >> append_col() raised "append_col is not implemented for data of type int".
C7_Witness ==
  /\ StageDone
  /\ status = "raised"
  /\ LastInput = Value("int", <<1>>)
  /\ LastCalled.verb = "append_col"
  /\ LastCalls = << <<"append_col", "append_col_generic">> >>
  /\ result = Raised("NotImplementedError", "int", <<>>)

DirectOver == expr = "direct" /\ status \in {"returned", "raised"}

\* C8: the register of a verb and the register of its singledispatch function
\* write the same dispatch table: for every function and class the verb's
\* PipeVerb and the function select the same implementation, a registration
\* made through either is the one both select, and the pipeline form and the
\* direct form run the implementation that table gives.
C8_OneDispatchTable ==
  /\ \A f \in Funcs : VerbOf[VerbName[f]].register = f
  /\ \A f \in Funcs, t \in Classes :
       Selected(registry, VerbOf[VerbName[f]].pipe_func, t) = Dispatch(registry, f, t)
  /\ last_stmt.op = "register" =>
       /\ Dispatch(registry, last_stmt.func, last_stmt.cls) = last_stmt.impl
       /\ Selected(registry, VerbOf[VerbName[last_stmt.func]].pipe_func, last_stmt.cls)
            = last_stmt.impl
  /\ (StageDone /\ LastCalls # <<>>) =>
       LastCalls[1] = <<LastFunc, Dispatch(registry, LastFunc, LastInput.type)>>
  /\ DirectOver =>
       calls[1][1] = <<direct.func, Dispatch(registry, direct.func, init.type)>>

\* @append_col.register(list), through the verb, has just run: the function's
\* table has the implementation for list.
C8_Witness ==
  /\ last_stmt.op = "register" /\ last_stmt.via = "verb"
  /\ last_stmt.func = "append_col" /\ last_stmt.cls = "list"
  /\ registry["append_col"]["list"] = "append_col_list"
  /\ Dispatch(registry, "append_col", "list") = "append_col_list"

\* C9: every verb of the notebook, applied with arguments it accepts to a
\* value no specialization matches, raises NotImplementedError naming the
\* value's type, and no other error.
C9_OnlyNotImplementedError ==
  (/\ StageDone /\ LastCalls # <<>>
   /\ LastCalls[1][2] = Generic[LastFunc]
   /\ ~Bind(Generic[LastFunc], LastCalled.args, LastCalled.kwargs).bad) =>
     /\ status = "raised"
     /\ result = Raised("NotImplementedError", LastInput.type, <<>>)

\* The leaves of a structure in depth-first order, each with its path of dict
\* keys and list indices.
RECURSIVE LeafPaths(_, _, _)
LeafPaths(node, path, i) ==
  IF node.kind = "str" THEN << [path |-> path, s |-> node.s] >>
  ELSE IF i > Len(node.items) THEN <<>>
  ELSE LET key == IF node.kind = "list" THEN Str(i - 1) ELSE node.keys[i]
       IN LeafPaths(node.items[i], Append(path, key), 1) \o LeafPaths(node, path, i + 1)

Matches(leaf, text) == leaf.s = text \/ Contains(leaf.s, text)

\* The first leaf of d_data that equals or contains d_text.
SomeMatch == \E i \in 1..Len(LeafPaths(d_data, <<>>, 1)) :
               Matches(LeafPaths(d_data, <<>>, 1)[i], d_text)
FirstMatch ==
  LET ls == LeafPaths(d_data, <<>>, 1)
      i == CHOOSE i \in 1..Len(ls) :
             Matches(ls[i], d_text) /\ \A j \in 1..(i - 1) : ~Matches(ls[j], d_text)
  IN ls[i]

\* find_in_dict has run (and get_from_dict on its path, when it is "done").
FindOver == d_pc \in {"found", "done", "raised"}

\* Every leaf of the structure is a string.
RECURSIVE StringLeaves(_)
StringLeaves(node) ==
  /\ node.kind \in {"str", "list", "dict"}
  /\ \A i \in 1..Len(node.items) : StringLeaves(node.items[i])

RECURSIVE NoDotKeys(_)
NoDotKeys(node) ==
  /\ \A i \in 1..Len(node.keys) : \A j \in 1..Len(node.keys[i]) : node.keys[i][j] # "."
  /\ \A i \in 1..Len(node.items) : NoDotKeys(node.items[i])

RoundTrip ==
  /\ d_pc \in {"found", "done"}
  /\ d_path = Join(FirstMatch.path)
  /\ d_pc = "done" => d_out = DictOutcome(TRUE, "", Leaf(FirstMatch.s))

\* C10 as claimed: for every structure of dicts and lists with string leaves in
\* which some leaf equals or contains text, find_in_dict returns the dot-joined
\* path of the first such leaf and get_from_dict returns that leaf for it.
C10_AsClaimed == (FindOver /\ StringLeaves(d_data) /\ SomeMatch) => RoundTrip

\* C10 amended: the same, for structures none of whose dict keys contains ".".
C10_RoundTrip ==
  (FindOver /\ StringLeaves(d_data) /\ SomeMatch /\ NoDotKeys(d_data)) => RoundTrip

\* {"a": ["a", "ab"]} and "b": the path is "a.1" and the leaf "ab".
C10_Witness ==
  /\ d_pc = "done"
  /\ d_data = DictNode(<< <<"a">> >>, << ListNode(<< Leaf(<<"a">>), Leaf(<<"a", "b">>) >>) >>)
  /\ d_text = <<"b">>
  /\ d_path = <<"a", ".", "1">>
  /\ d_out = DictOutcome(TRUE, "", Leaf(<<"a", "b">>))

\* The function a patched operator calls for an instance of class c:
\* self.__orig_rshift__, looked up along the MRO of c.
OrigResolved(c) == Lookup(cls_orig, c)

\* Every enabled class resolves __orig_rshift__ to an original function.
OrigNeverPatched ==
  \A c \in Classes :
     Lookup(cls_rshift, c).kind = "patched" => OrigResolved(c).kind = "orig"

\* C11: after any sequence of make_pipesource calls on the classes of a
\* hierarchy, the __orig_rshift__ that a patched operator resolves on an
\* instance is never a patched operator and never leads back into one:
\* value >> n with n not a PipeVerb terminates, it never ends in endless
\* recursion (RecursionError).
C11_OrigNeverLeadsBack ==
  /\ OrigNeverPatched
  /\ OtherOver => ~(~result.ok /\ result.type = "RecursionError")

\* Segment n names a child of node: a key of a dict, an index of a list.
HasSegment(node, n) ==
  \/ node.kind = "dict" /\ \E i \in 1..Len(node.keys) : node.keys[i] = n
  \/ node.kind = "list" /\ IsInt(n) /\ IntOf(n) < Len(node.items)

ChildAt(node, n) ==
  IF node.kind = "dict"
  THEN node.items[CHOOSE i \in 1..Len(node.keys) : node.keys[i] = n]
  ELSE node.items[IntOf(n) + 1]

\* Position of the first segment of names that is not in the structure
\* reached so far; 0 when the whole path exists.
RECURSIVE MissingAt(_, _)
MissingAt(node, names) ==
  IF names = <<>> THEN 0
  ELSE IF ~HasSegment(node, names[1]) THEN 1
  ELSE LET r == MissingAt(ChildAt(node, names[1]), Tail(names))
       IN IF r = 0 THEN 0 ELSE r + 1

\* The structure reached before segment k of names (k - 1 segments followed).
RECURSIVE Reached(_, _, _)
Reached(node, names, k) ==
  IF k = 1 THEN node
  ELSE Reached(ChildAt(node, names[1]), Tail(names), k - 1)

GetOver == d_pc = "got"

\* C12: get_from_dict(data, name) raises "Key not found: <segment> (<name>)"
\* whenever some segment of the dotted name is not a key of the structure
\* reached so far; it never returns a value for a path that is not in data.
C12_MissingKeyRaises ==
  LET names == Split(d_path)
      m == MissingAt(d_data, names)
  IN (GetOver /\ m # 0) =>
       /\ ~d_out.ok
       /\ Reached(d_data, names, m).kind = "dict" =>
            d_out = DictOutcome(FALSE, "Key not found", Leaf(names[m]))

====
